---- MODULE Spec2Model ----
(***************************************************************************)
(* Model of delta_derive (src/delta_derive/src/lib.rs): the derive macro   *)
(* for the Delta trait.  The macro reads one type declaration, emits the   *)
(* Desc / Change declarations and an `impl delta::Delta`, and the emitted  *)
(* `delta` body is then run on two values of the type.                     *)
(*                                                                         *)
(* The emitted token streams are kept as data (records naming the quoted   *)
(* template and its interpolated parts); Eval* operators give them the     *)
(* meaning the Rust compiler gives the emitted text.                       *)
(***************************************************************************)
EXTENDS Integers, Sequences, FiniteSets, TLC

VARIABLES input, gen, pc, self, other, result

vars == <<input, gen, pc, self, other, result>>

----------------------------------------------------------------------------
(* Bounds of the model *)

\* most fields a record (struct) declares
MaxFields == 3

\* most cases (variants) an enum declares
MaxVariants == 2

\* most fields the variants of one enum declare, taken together
MaxEnumFields == 3

\* the same, for the enums examined under every set of annotations
MaxAttrEnumFields == 1

\* the values a field of the scalar field type can hold
FieldValues == {0, 1}

\* identifiers of named fields, by declaration position
NamedIdents == <<"x", "y_pos", "z_index", "w", "v_max">>

\* identifiers of enum variants, by declaration position
VariantIdents == <<"Red", "Green", "Blue", "Gray">>

----------------------------------------------------------------------------
(* The delta crate's containers and the field type's own Delta impl *)

Unchanged == [tag |-> "Unchanged"]

Changed(c) == [tag |-> "Changed", change |-> c]

\* Changed::map: apply a constructor to the payload of Changed
Changed_map(r, ctor) ==
    IF r.tag = "Changed" THEN Changed([ctor |-> ctor, arg |-> r.change]) ELSE r

\* Changed::to_changes: the payload as a zero- or one-element collection
to_changes(r) == IF r.tag = "Changed" THEN <<r.change>> ELSE <<>>

\* Changed::is_unchanged
is_unchanged(r) == r.tag = "Unchanged"

\* <T as Delta>::delta for the scalar field type
FieldDelta(a, b) == IF a = b THEN Unchanged ELSE Changed([old |-> a, new |-> b])

\* <T as Delta>::describe for the scalar field type: a clone
FieldDescribe(a) == a

----------------------------------------------------------------------------
(* Helpers of the generator *)

Attr(path) == [path |-> path, args |-> ""]

has_attr(attrs, attr_name) == {a \in attrs : a.path = attr_name}

is_some(opt) == opt # {}

is_none(opt) == opt = {}

\* name.to_string().to_case(Case::Pascal) on the identifiers of NamedIdents
to_case_Pascal(name) ==
    CASE name = "x" -> "X"
      [] name = "y_pos" -> "YPos"
      [] name = "z_index" -> "ZIndex"
      [] name = "w" -> "W"
      [] name = "v_max" -> "VMax"

desc_type(ty) == [assoc |-> "Desc", of |-> ty]

change_type(ty) == [assoc |-> "Change", of |-> ty]

\* the member a field is reached by: its identifier, or its position
MemberOf(fields, i) ==
    IF fields.style = "Named" THEN fields.list[i].ident ELSE ToString(i - 1)

\* field_names_and_types without the delta_ignore test
field_names_and_types_unfiltered(fields) ==
    LET info(i) ==
            IF fields.style = "Named"
            THEN [name |-> fields.list[i].ident,
                  pascal_case |-> to_case_Pascal(fields.list[i].ident),
                  ty |-> fields.list[i].ty]
            ELSE [name |-> ToString(i - 1),
                  pascal_case |-> "Field" \o ToString(i - 1),
                  ty |-> fields.list[i].ty]
    IN  IF fields.style = "Unit" THEN <<>>
        ELSE [i \in 1..Len(fields.list) |-> info(i)]

\* field_names_and_types with positional fields numbered after the filter
field_names_and_types_renumbered(fields) ==
    LET all == [i \in 1..Len(fields.list) |->
                  [keep |-> is_none(has_attr(fields.list[i].attrs, "delta_ignore")),
                   ident |-> fields.list[i].ident,
                   ty |-> fields.list[i].ty]]
        kept == SelectSeq(all, LAMBDA e : e.keep)
    IN  IF fields.style = "Unit" THEN <<>>
        ELSE [k \in 1..Len(kept) |->
                 IF fields.style = "Named"
                 THEN [name |-> kept[k].ident,
                       pascal_case |-> to_case_Pascal(kept[k].ident),
                       ty |-> kept[k].ty]
                 ELSE [name |-> ToString(k - 1),
                       pascal_case |-> "Field" \o ToString(k - 1),
                       ty |-> kept[k].ty]]

field_names_and_types(fields) ==
    LET info(i) ==
            IF fields.style = "Named"
            THEN [name |-> fields.list[i].ident,
                  pascal_case |-> to_case_Pascal(fields.list[i].ident),
                  ty |-> fields.list[i].ty]
            ELSE [name |-> ToString(i - 1),
                  pascal_case |-> "Field" \o ToString(i - 1),
                  ty |-> fields.list[i].ty]
        all == [i \in 1..Len(fields.list) |->
                  [keep |-> is_none(has_attr(fields.list[i].attrs, "delta_ignore")),
                   info |-> info(i)]]
        kept == SelectSeq(all, LAMBDA e : e.keep)
    IN  IF fields.style = "Unit" THEN <<>>
        ELSE [i \in 1..Len(kept) |-> kept[i].info]

definition(visibility, keyword, name, use_unnamed_fields, body) ==
    [visibility |-> visibility,
     keyword |-> keyword,
     name |-> name,
     form |-> IF Len(body) = 0 THEN "unit"
              ELSE IF Len(body) = 1 THEN "paren"
              ELSE IF use_unnamed_fields THEN "paren"
              ELSE "brace",
     body |-> body]

define_enum_from_fields(visibility, name, fields) ==
    LET infos == field_names_and_types(fields)
        change_innards ==
            [i \in 1..Len(infos) |->
                [case |-> infos[i].pascal_case, payload |-> change_type(infos[i].ty)]]
    IN  definition(visibility, "enum", name, FALSE, change_innards)

define_delta_impl(name, describe_type, describe_body, change_ty, change_body) ==
    [name |-> name,
     Desc |-> describe_type,
     describe |-> describe_body,
     Change |-> change_ty,
     delta |-> change_body]

----------------------------------------------------------------------------
(* gather_attrs *)

\* gather_attrs with compare_default tested before describe_type
gather_attrs_default_first(inp) ==
    LET type_name == inp.ident
        no_description == is_some(has_attr(inp.attrs, "no_description"))
        describe_type == has_attr(inp.attrs, "describe_type")
        describe_body == has_attr(inp.attrs, "describe_body")
        compare_default == is_some(has_attr(inp.attrs, "compare_default"))
        visibility ==
            IF is_some(has_attr(inp.attrs, "delta_private")) THEN ""
            ELSE IF is_some(has_attr(inp.attrs, "delta_public")) THEN "pub"
            ELSE inp.vis
        type_panics ==
            /\ ~no_description
            /\ \E a \in describe_type : a.args = "malformed"
        body_panics ==
            /\ ~no_description
            /\ \E a \in describe_body : a.args = "malformed"
    IN  [panicked |-> type_panics \/ body_panics,
         visibility |-> visibility,
         type_name |-> type_name,
         desc_name |-> type_name \o "Desc",
         desc_type |-> IF no_description THEN "()"
                       ELSE IF compare_default THEN "Self::Change"
                       ELSE IF is_some(describe_type) THEN "describe_type"
                       ELSE "Self",
         desc_body |-> IF no_description THEN "()"
                       ELSE IF is_some(describe_body) THEN "describe_body"
                       ELSE IF compare_default
                            THEN "default().delta(self).unwrap_or_default()"
                       ELSE "(*self).clone()",
         change_name |-> type_name \o "Change"]

gather_attrs(inp) ==
    LET type_name == inp.ident
        no_description == is_some(has_attr(inp.attrs, "no_description"))
        describe_type == has_attr(inp.attrs, "describe_type")
        describe_body == has_attr(inp.attrs, "describe_body")
        compare_default == is_some(has_attr(inp.attrs, "compare_default"))
        visibility ==
            IF is_some(has_attr(inp.attrs, "delta_private")) THEN ""
            ELSE IF is_some(has_attr(inp.attrs, "delta_public")) THEN "pub"
            ELSE inp.vis
        type_panics ==
            /\ ~no_description
            /\ \E a \in describe_type : a.args = "malformed"
        body_panics ==
            /\ ~no_description
            /\ \E a \in describe_body : a.args = "malformed"
    IN  [panicked |-> type_panics \/ body_panics,
         visibility |-> visibility,
         type_name |-> type_name,
         desc_name |-> type_name \o "Desc",
         desc_type |-> IF no_description THEN "()"
                       ELSE IF is_some(describe_type) THEN "describe_type"
                       ELSE IF compare_default THEN "Self::Change"
                       ELSE "Self",
         desc_body |-> IF no_description THEN "()"
                       ELSE IF is_some(describe_body) THEN "describe_body"
                       ELSE IF compare_default
                            THEN "default().delta(self).unwrap_or_default()"
                       ELSE "(*self).clone()",
         change_name |-> type_name \o "Change"]

----------------------------------------------------------------------------
(* process_struct *)

\* the branch for no comparable field (lib.rs 125-137)
process_struct_empty(attrs) ==
    [kind |-> "struct",
     decls |-> <<>>,
     delta_impl |->
         define_delta_impl(attrs.type_name, attrs.desc_type,
             [op |-> "expr", expr |-> attrs.desc_body],
             [ty |-> "()", of |-> ""],
             [op |-> "Unchanged"])]

\* the branch for one comparable field (lib.rs 138-167)
process_struct_single(attrs, name_and_types) ==
    [kind |-> "struct",
     decls |-> << definition(attrs.visibility, "struct", attrs.change_name,
                      FALSE, << change_type(name_and_types[1].ty) >>) >>,
     delta_impl |->
         define_delta_impl(attrs.type_name, attrs.desc_type,
             [op |-> "expr", expr |-> attrs.desc_body],
             [ty |-> attrs.change_name, of |-> ""],
             [op |-> "map",
              field |-> name_and_types[1].name,
              ctor |-> attrs.change_name])]

\* process_struct_multi with the entries of the vec![..] pushed last field first
process_struct_multi_reversed(attrs, st, name_and_types) ==
    [kind |-> "struct",
     decls |-> << define_enum_from_fields(attrs.visibility,
                      attrs.change_name, st.fields) >>,
     delta_impl |->
         define_delta_impl(attrs.type_name, attrs.desc_type,
             [op |-> "expr", expr |-> attrs.desc_body],
             [ty |-> "Vec", of |-> attrs.change_name],
             [op |-> "collect",
              delta_innards |->
                  [i \in 1..Len(name_and_types) |->
                      [field |-> name_and_types[Len(name_and_types) + 1 - i].name,
                       ctor |->
                          name_and_types[Len(name_and_types) + 1 - i].pascal_case]]])]

\* the branch for two or more comparable fields (lib.rs 168-206)
process_struct_multi(attrs, st, name_and_types) ==
    [kind |-> "struct",
     decls |-> << define_enum_from_fields(attrs.visibility,
                      attrs.change_name, st.fields) >>,
     delta_impl |->
         define_delta_impl(attrs.type_name, attrs.desc_type,
             [op |-> "expr", expr |-> attrs.desc_body],
             [ty |-> "Vec", of |-> attrs.change_name],
             [op |-> "collect",
              delta_innards |->
                  [i \in 1..Len(name_and_types) |->
                      [field |-> name_and_types[i].name,
                       ctor |-> name_and_types[i].pascal_case]]])]

process_struct(attrs, st) ==
    LET name_and_types == field_names_and_types(st.fields)
    IN  IF Len(name_and_types) = 0 THEN process_struct_empty(attrs)
        ELSE IF Len(name_and_types) = 1
        THEN process_struct_single(attrs, name_and_types)
        ELSE process_struct_multi(attrs, st, name_and_types)

----------------------------------------------------------------------------
(* process_enum *)

\* the members bound by one variant's pattern: every declared field, by
\* identifier (named) or by position (unnamed); field attributes are not read
VariantMembers(variant) ==
    [i \in 1..Len(variant.fields.list) |-> MemberOf(variant.fields, i)]

\* desc_innards entry: the variant with each field's Desc type
desc_innard(variant) ==
    [vname |-> variant.ident,
     style |-> variant.fields.style,
     members |-> VariantMembers(variant),
     types |-> [i \in 1..Len(variant.fields.list) |->
                   desc_type(variant.fields.list[i].ty)]]

\* change_innards entry: the variant with each field's delta::Changed<Change>
change_innard(variant) ==
    [vname |-> variant.ident,
     style |-> variant.fields.style,
     members |-> VariantMembers(variant),
     types |-> [i \in 1..Len(variant.fields.list) |->
                   [ty |-> "delta::Changed",
                    of |-> change_type(variant.fields.list[i].ty)]]]

\* match_innards entry: the arm of describe's `match self`
match_innard(variant) ==
    [pat |-> variant.ident,
     members |-> VariantMembers(variant),
     body |-> "describe_fields"]

\* is_unchanged_innard that tests the first bound field only
is_unchanged_innard_first(variant) ==
    [pat |-> variant.ident,
     members |-> IF VariantMembers(variant) = <<>> THEN <<>>
                 ELSE <<VariantMembers(variant)[1]>>,
     body |-> IF variant.fields.style = "Unit" THEN "true" ELSE "all_unchanged"]

\* is_unchanged_innards entry: the arm of Change::is_unchanged's `match self`
is_unchanged_innard(variant) ==
    [pat |-> variant.ident,
     members |-> VariantMembers(variant),
     body |-> IF variant.fields.style = "Unit" THEN "true" ELSE "all_unchanged"]

\* delta_innard that answers Unchanged for every same-variant pair
delta_innard_unchanged(variant) ==
    [pat |-> variant.ident,
     members |-> VariantMembers(variant),
     body |-> "Unchanged"]

\* delta_innards entry: the arm of delta's `match (self, other)`
delta_innard(variant) ==
    [pat |-> variant.ident,
     members |-> VariantMembers(variant),
     body |-> IF variant.fields.style = "Unit" THEN "Unchanged" ELSE "SameVariant"]

\* the arm pushed after the loop: (_, _) => DiffVariant(describe, describe)
fallback_innard == [pat |-> "_", members |-> <<>>, body |-> "DiffVariant"]

\* The mirror struct built per variant (lib.rs 240-246) is bound to
\* _fields_change_struct and never emitted, so it has no part in the output.
process_enum(attrs, en) ==
    LET kept == SelectSeq(en.variants,
                    LAMBDA variant : is_none(has_attr(variant.attrs, "delta_ignore")))
        n == Len(kept)
        desc_innards == [i \in 1..n |-> desc_innard(kept[i])]
        change_innards == [i \in 1..n |-> change_innard(kept[i])]
        match_innards == [i \in 1..n |-> match_innard(kept[i])]
        is_unchanged_innards == [i \in 1..n |-> is_unchanged_innard(kept[i])]
        delta_innards == [i \in 1..n |-> delta_innard(kept[i])] \o <<fallback_innard>>
    IN  [kind |-> "enum",
         decls |-> << definition(attrs.visibility, "enum", attrs.desc_name,
                          FALSE, desc_innards),
                      definition(attrs.visibility, "enum", attrs.change_name,
                          FALSE, change_innards) >>,
         is_unchanged |-> is_unchanged_innards,
         delta_impl |->
             define_delta_impl(attrs.type_name,
                 attrs.desc_name,
                 [op |-> "match", arms |-> match_innards],
                 [ty |-> "delta::EnumChange", of |-> attrs.change_name],
                 [op |-> "match", arms |-> delta_innards])]

----------------------------------------------------------------------------
(* impl_delta *)

Panicked(msg) == [kind |-> "panic", message |-> msg]

impl_delta(inp) ==
    LET attrs == gather_attrs(inp)
    IN  IF attrs.panicked THEN Panicked("Failed to parse attribute")
        ELSE IF inp.kind = "struct" THEN process_struct(attrs, inp)
        ELSE IF inp.kind = "enum" THEN process_enum(attrs, inp)
        ELSE Panicked("Delta derivation not yet implemented for unions")

----------------------------------------------------------------------------
(* What rustc makes of the emitted items *)

\* `enum Name;` and `enum Name(..);` are not items of the language; every
\* emitted form is one for `struct`
definition_is_item(def) == def.keyword = "struct" \/ def.form = "brace"

\* a `match` with no wildcard arm must name every variant of the matched enum
match_is_exhaustive(arms, variant_names) ==
    \/ \E i \in 1..Len(arms) : arms[i].pat = "_"
    \/ \A v \in variant_names : \E i \in 1..Len(arms) : arms[i].pat = v

rustc_accepts(inp, g) ==
    /\ \A i \in 1..Len(g.decls) : definition_is_item(g.decls[i])
    /\ g.kind = "enum" =>
          LET names == {inp.variants[i].ident : i \in 1..Len(inp.variants)}
          IN  /\ match_is_exhaustive(g.delta_impl.describe.arms, names)
              /\ match_is_exhaustive(g.delta_impl.delta.arms, names)

----------------------------------------------------------------------------
(* Meaning of the emitted bodies *)

\* vec![..].into_iter().flatten().collect()
Flatten(parts) ==
    LET F[i \in 0..Len(parts)] == IF i = 0 THEN <<>> ELSE F[i - 1] \o parts[i]
    IN  F[Len(parts)]

\* index of the first arm whose pattern both operands' variants match
FirstArm(arms, v1, v2) ==
    LET hits == {i \in 1..Len(arms) :
                    arms[i].pat = "_" \/ (arms[i].pat = v1 /\ arms[i].pat = v2)}
    IN  CHOOSE i \in hits : \A j \in hits : i <= j

\* describe() as emitted for an enum: match self { #(#match_innards),* }
EvalDescribe(g, v) ==
    LET arms == g.delta_impl.describe.arms
        arm == arms[FirstArm(arms, v.variant, v.variant)]
    IN  [variant |-> arm.pat,
         fields |-> [m \in {arm.members[i] : i \in 1..Len(arm.members)} |->
                        FieldDescribe(v.fields[m])]]

\* Change::is_unchanged as emitted: match self { #(#is_unchanged_innards),* }
EvalIsUnchanged(g, change) ==
    LET arms == g.is_unchanged
        arm == arms[FirstArm(arms, change.variant, change.variant)]
    IN  IF arm.body = "true" THEN TRUE
        ELSE \A i \in 1..Len(arm.members) : is_unchanged(change.fields[arm.members[i]])

\* EvalStructDelta without the `if changes.is_empty()` of the collected body
EvalStructDelta_unchecked(g, a, b) ==
    LET body == g.delta_impl.delta
    IN  CASE body.op = "Unchanged" -> Unchanged
          [] body.op = "map" ->
                Changed_map(FieldDelta(a.fields[body.field], b.fields[body.field]),
                            body.ctor)
          [] body.op = "collect" ->
                Changed(Flatten([i \in 1..Len(body.delta_innards) |->
                            to_changes(Changed_map(
                                FieldDelta(a.fields[body.delta_innards[i].field],
                                           b.fields[body.delta_innards[i].field]),
                                body.delta_innards[i].ctor))]))

\* delta() as emitted for a struct (lib.rs 131, 159, 187-197)
EvalStructDelta(g, a, b) ==
    LET body == g.delta_impl.delta
    IN  CASE body.op = "Unchanged" -> Unchanged
          [] body.op = "map" ->
                Changed_map(FieldDelta(a.fields[body.field], b.fields[body.field]),
                            body.ctor)
          [] body.op = "collect" ->
                LET changes ==
                        Flatten([i \in 1..Len(body.delta_innards) |->
                            to_changes(Changed_map(
                                FieldDelta(a.fields[body.delta_innards[i].field],
                                           b.fields[body.delta_innards[i].field]),
                                body.delta_innards[i].ctor))])
                IN  IF changes = <<>> THEN Unchanged ELSE Changed(changes)

\* EvalEnumDelta with the two descriptions of the fallback arm exchanged
EvalEnumDelta_swapped(g, a, b) ==
    LET arms == g.delta_impl.delta.arms
        arm == arms[FirstArm(arms, a.variant, b.variant)]
        change == [variant |-> arm.pat,
                   fields |-> [m \in {arm.members[i] : i \in 1..Len(arm.members)} |->
                                  FieldDelta(a.fields[m], b.fields[m])]]
    IN  CASE arm.body = "Unchanged" -> Unchanged
          [] arm.body = "SameVariant" ->
                IF EvalIsUnchanged(g, change) THEN Unchanged
                ELSE Changed([tag |-> "SameVariant", change |-> change])
          [] arm.body = "DiffVariant" ->
                Changed([tag |-> "DiffVariant",
                         self_desc |-> EvalDescribe(g, b),
                         other_desc |-> EvalDescribe(g, a)])

\* EvalEnumDelta without the `if change.is_unchanged()` of the same-variant arm
EvalEnumDelta_unchecked(g, a, b) ==
    LET arms == g.delta_impl.delta.arms
        arm == arms[FirstArm(arms, a.variant, b.variant)]
        change == [variant |-> arm.pat,
                   fields |-> [m \in {arm.members[i] : i \in 1..Len(arm.members)} |->
                                  FieldDelta(a.fields[m], b.fields[m])]]
    IN  CASE arm.body = "Unchanged" -> Unchanged
          [] arm.body = "SameVariant" ->
                Changed([tag |-> "SameVariant", change |-> change])
          [] arm.body = "DiffVariant" ->
                Changed([tag |-> "DiffVariant",
                         self_desc |-> EvalDescribe(g, a),
                         other_desc |-> EvalDescribe(g, b)])

\* delta() as emitted for an enum: match (self, other) { #(#delta_innards),* }
EvalEnumDelta(g, a, b) ==
    LET arms == g.delta_impl.delta.arms
        arm == arms[FirstArm(arms, a.variant, b.variant)]
        change == [variant |-> arm.pat,
                   fields |-> [m \in {arm.members[i] : i \in 1..Len(arm.members)} |->
                                  FieldDelta(a.fields[m], b.fields[m])]]
    IN  CASE arm.body = "Unchanged" -> Unchanged
          [] arm.body = "SameVariant" ->
                IF EvalIsUnchanged(g, change) THEN Unchanged
                ELSE Changed([tag |-> "SameVariant", change |-> change])
          [] arm.body = "DiffVariant" ->
                Changed([tag |-> "DiffVariant",
                         self_desc |-> EvalDescribe(g, a),
                         other_desc |-> EvalDescribe(g, b)])

EvalDelta(g, a, b) ==
    IF g.kind = "struct" THEN EvalStructDelta(g, a, b) ELSE EvalEnumDelta(g, a, b)

\* Default::default() of the declared record: every field at its default
DefaultValue(inp) ==
    [variant |-> "", fields |-> [m \in {MemberOf(inp.fields, i) :
                                          i \in 1..Len(inp.fields.list)} |-> 0]]

\* describe() as emitted for a struct: the desc_body chosen by gather_attrs
EvalStructDescribe(inp, g, v) ==
    LET body == g.delta_impl.describe.expr
    IN  CASE body = "()" -> [kind |-> "unit", value |-> <<>>]
          [] body = "describe_body" -> [kind |-> "expr", value |-> v]
          [] body = "default().delta(self).unwrap_or_default()" ->
                LET r == EvalStructDelta(g, DefaultValue(inp), v)
                IN  IF r.tag = "Changed" THEN [kind |-> "change", value |-> r.change]
                    ELSE [kind |-> "change_default", value |-> <<>>]
          [] body = "(*self).clone()" -> [kind |-> "clone", value |-> v]

EvalDescribeOf(inp, g, v) ==
    IF g.kind = "struct" THEN EvalStructDescribe(inp, g, v)
    ELSE [kind |-> "mirror", value |-> EvalDescribe(g, v)]

----------------------------------------------------------------------------
(* The type declarations the macro is applied to, and their values *)

Field(ident, ignored) ==
    [ident |-> ident,
     attrs |-> IF ignored THEN {Attr("delta_ignore")} ELSE {},
     ty |-> "T"]

UnitFields == [style |-> "Unit", list |-> <<>>]

FieldsOfStyle(style, ign) ==
    [style |-> style,
     list |-> [i \in DOMAIN ign |->
                  Field(IF style = "Named" THEN NamedIdents[i] ELSE "", ign[i])]]

\* syn::Fields with exactly n fields, each flagged delta_ignore or not
FieldsWith(n) ==
    (IF n = 0 THEN {UnitFields} ELSE {}) \cup
    {FieldsOfStyle(style, ign) :
        style \in {"Named", "Unnamed"}, ign \in [1..n -> BOOLEAN]}

\* syn::Fields with at most max fields
FieldsUpTo(max) == UNION {FieldsWith(n) : n \in 0..max}

\* the description annotations a record carries, each with a payload that parses
StructAttrSets ==
    SUBSET {Attr("no_description"),
            [path |-> "describe_type", args |-> "T"],
            [path |-> "describe_body", args |-> "e"],
            Attr("compare_default")}

StructInputs ==
    {[kind |-> "struct", ident |-> "Foo", vis |-> "pub", attrs |-> a,
      fields |-> f, variants |-> <<>>] :
        a \in StructAttrSets, f \in FieldsUpTo(MaxFields)}

Variant(ident, ignored, fields) ==
    [ident |-> ident,
     attrs |-> IF ignored THEN {Attr("delta_ignore")} ELSE {},
     fields |-> fields]

\* the number of fields the variants of a list declare together
TotalFields(variants) ==
    LET T[i \in 0..Len(variants)] ==
            IF i = 0 THEN 0 ELSE T[i - 1] + Len(variants[i].fields.list)
    IN  T[Len(variants)]

\* enums of at most MaxVariants variants, each flagged delta_ignore or not,
\* that declare at most MaxEnumFields fields together
EnumInput(choice) ==
    [kind |-> "enum", ident |-> "Foo", vis |-> "pub", attrs |-> {},
     fields |-> UnitFields,
     variants |-> [i \in DOMAIN choice |->
                      Variant(VariantIdents[i], choice[i].ignored, choice[i].fields)]]

UnionInputs ==
    {[kind |-> "union", ident |-> "Foo", vis |-> "pub", attrs |-> {},
      fields |-> UnitFields, variants |-> <<>>]}

\* the description annotations a type can carry: describe_type and
\* describe_body each absent, with a payload that parses, or with one that
\* does not
AttrSets ==
    {flags \cup ty \cup body :
        flags \in SUBSET {Attr("no_description"), Attr("compare_default")},
        ty \in {{}, {[path |-> "describe_type", args |-> "T"]},
                {[path |-> "describe_type", args |-> "malformed"]}},
        body \in {{}, {[path |-> "describe_body", args |-> "e"]},
                  {[path |-> "describe_body", args |-> "malformed"]}}}

WithAttrs(inp, attrs) == [inp EXCEPT !.attrs = attrs]

Members(fields) == {MemberOf(fields, i) : i \in 1..Len(fields.list)}

\* the values of the declared type: every declared field holds a value
ValuesOf(inp) ==
    IF inp.kind = "struct"
    THEN {[variant |-> "", fields |-> f] : f \in [Members(inp.fields) -> FieldValues]}
    ELSE UNION {
            {[variant |-> inp.variants[i].ident, fields |-> f] :
                f \in [Members(inp.variants[i].fields) -> FieldValues]}
            : i \in 1..Len(inp.variants)}

NoValue == [variant |-> "", fields |-> <<>>]

NoResult == [tag |-> "none"]

NoGen == [kind |-> "none"]

----------------------------------------------------------------------------
(* The state machine: expand the derive, compile the expansion, call delta *)

InitRest ==
    /\ gen = NoGen
    /\ pc = "input"
    /\ self = NoValue
    /\ other = NoValue
    /\ result = NoResult

InitStruct ==
    /\ input \in StructInputs
    /\ InitRest

InitEnum ==
    /\ \E n \in 0..MaxVariants :
          \E choice \in [1..n -> [ignored : BOOLEAN,
                                  fields : FieldsUpTo(MaxEnumFields)]] :
              /\ input = EnumInput(choice)
              /\ TotalFields(input.variants) <= MaxEnumFields
    /\ InitRest

InitUnion ==
    /\ input \in UnionInputs
    /\ InitRest

Init == InitStruct \/ InitEnum \/ InitUnion

\* records, enums and the union under every set of description annotations
InitAttrs ==
    /\ \E attrs \in AttrSets :
          \/ \E f \in FieldsUpTo(MaxFields) :
                input = [kind |-> "struct", ident |-> "Foo", vis |-> "pub",
                         attrs |-> attrs, fields |-> f, variants |-> <<>>]
          \/ \E n \in 0..MaxVariants :
                \E choice \in [1..n -> [ignored : BOOLEAN,
                                        fields : FieldsUpTo(MaxAttrEnumFields)]] :
                    /\ input = WithAttrs(EnumInput(choice), attrs)
                    /\ TotalFields(input.variants) <= MaxAttrEnumFields
          \/ \E u \in UnionInputs : input = WithAttrs(u, attrs)
    /\ InitRest

\* delta_macro / impl_delta: the macro expansion, or its panic
Derive ==
    /\ pc = "input"
    /\ gen' = impl_delta(input)
    /\ pc' = IF gen'.kind = "panic" THEN "panic" ELSE "expanded"
    /\ UNCHANGED <<input, self, other, result>>

\* rustc on the expansion
Compile ==
    /\ pc = "expanded"
    /\ pc' = IF rustc_accepts(input, gen) THEN "built" ELSE "rejected"
    /\ UNCHANGED <<input, gen, self, other, result>>

\* a call self.delta(&other) of the emitted impl
Delta ==
    /\ pc = "built"
    /\ \E a \in ValuesOf(input), b \in ValuesOf(input) :
          /\ self' = a
          /\ other' = b
          /\ result' = EvalDelta(gen, a, b)
    /\ pc' = "compared"
    /\ UNCHANGED <<input, gen>>

\* a call self.describe() of the emitted impl
Describe ==
    /\ pc = "built"
    /\ \E v \in ValuesOf(input) :
          /\ self' = v
          /\ result' = [tag |-> "Desc", desc |-> EvalDescribeOf(input, gen, v)]
    /\ pc' = "described"
    /\ UNCHANGED <<input, gen, other>>

Next == Derive \/ Compile \/ Delta \/ Describe

Spec == Init /\ [][Next]_vars

SpecStruct == InitStruct /\ [][Next]_vars

SpecEnum == InitEnum /\ [][Next]_vars

SpecAttrs == InitAttrs /\ [][Next]_vars

----------------------------------------------------------------------------
(* Vocabulary of the properties, read off the declaration in `input` *)

Ignored(field) == \E a \in field.attrs : a.path = "delta_ignore"

\* positions of the fields of a field list that are not flagged ignored
LivePositions(fields) ==
    {i \in 1..Len(fields.list) : ~Ignored(fields.list[i])}

\* the Change case a record field's change is wrapped in
CaseFor(fields, i) ==
    IF fields.style = "Named" THEN to_case_Pascal(fields.list[i].ident)
    ELSE "Field" \o ToString(i - 1)

\* what the field at position i reports when a is compared with b
FieldReport(fields, i, a, b) ==
    FieldDelta(a.fields[MemberOf(fields, i)], b.fields[MemberOf(fields, i)])

\* positions of the non-ignored fields whose own compare returned Changed
ChangedPositions(fields, a, b) ==
    {i \in LivePositions(fields) : FieldReport(fields, i, a, b).tag = "Changed"}

IsRecordCompare == pc = "compared" /\ input.kind = "struct"

IsVariantCompare == pc = "compared" /\ input.kind = "enum"

----------------------------------------------------------------------------
(* C1: for a record with two or more non-ignored fields, compare returns  *)
(* Changed(seq) where seq has exactly one entry per non-ignored field     *)
(* whose own compare returned Changed (that change wrapped in the field's *)
(* case), none for a field that returned Unchanged, in declaration order; *)
(* it returns Unchanged exactly when no field changed.                    *)
C1_SequenceFidelity ==
    (IsRecordCompare /\ Cardinality(LivePositions(input.fields)) >= 2) =>
        LET changed == ChangedPositions(input.fields, self, other)
            entry(i) == [ctor |-> CaseFor(input.fields, i),
                         arg |-> FieldReport(input.fields, i, self, other).change]
        IN  IF changed = {} THEN result = Unchanged
            ELSE /\ result.tag = "Changed"
                 /\ Len(result.change) = Cardinality(changed)
                 /\ \A i \in changed :
                       \E k \in 1..Len(result.change) : result.change[k] = entry(i)
                 /\ \A i, j \in changed :
                       i < j =>
                          \E k, l \in 1..Len(result.change) :
                             /\ k < l
                             /\ result.change[k] = entry(i)
                             /\ result.change[l] = entry(j)

\* a three-field record whose first and third fields differ and whose second
\* does not: two entries come back
C1_Witness ==
    /\ IsRecordCompare
    /\ Len(input.fields.list) = 3
    /\ LivePositions(input.fields) = {1, 2, 3}
    /\ ChangedPositions(input.fields, self, other) = {1, 3}
    /\ result.tag = "Changed"
    /\ Len(result.change) = 2

----------------------------------------------------------------------------
(* C8: for a record with exactly one non-ignored field, however many      *)
(* ignored fields it declares, compare returns Unchanged exactly when     *)
(* that field's compare returns Unchanged and Changed(Wrapper(c)) exactly *)
(* when it returns Changed(c); the Change is the one-field wrapper struct,*)
(* not a sequence.                                                        *)
C8_SingleFieldPropagation ==
    (IsRecordCompare /\ Cardinality(LivePositions(input.fields)) = 1) =>
        LET i == CHOOSE i \in LivePositions(input.fields) : TRUE
            report == FieldReport(input.fields, i, self, other)
            wrapper == input.ident \o "Change"
        IN  /\ (result = Unchanged) <=> (report.tag = "Unchanged")
            /\ report.tag = "Changed" =>
                  result = Changed([ctor |-> wrapper, arg |-> report.change])
            /\ gen.delta_impl.Change = [ty |-> wrapper, of |-> ""]
            /\ Len(gen.decls) = 1
            /\ gen.decls[1].keyword = "struct"
            /\ gen.decls[1].name = wrapper
            /\ gen.decls[1].body = << [assoc |-> "Change", of |-> "T"] >>

\* the one compared field is declared after an ignored one, and it changed
\* while the ignored one did not
C8_Witness ==
    /\ IsRecordCompare
    /\ Len(input.fields.list) >= 2
    /\ LivePositions(input.fields) = {2}
    /\ self.fields[MemberOf(input.fields, 1)] = other.fields[MemberOf(input.fields, 1)]
    /\ self.fields[MemberOf(input.fields, 2)] # other.fields[MemberOf(input.fields, 2)]
    /\ result.tag = "Changed"

----------------------------------------------------------------------------
(* C9: for a record with no comparable field (a unit record, a record     *)
(* declaring no field, or one whose fields are all ignored) compare       *)
(* returns Unchanged for every pair of instances, and the Change type is  *)
(* the unit type.                                                         *)
C9_EmptyRecord ==
    (input.kind = "struct" /\ LivePositions(input.fields) = {}) =>
        /\ pc \in {"expanded", "built", "compared"} =>
              /\ gen.delta_impl.Change = [ty |-> "()", of |-> ""]
              /\ gen.decls = <<>>
        /\ pc = "compared" => result = Unchanged

\* two instances of an all-ignored record that differ in every field
C9_Witness ==
    /\ IsRecordCompare
    /\ Len(input.fields.list) >= 2
    /\ LivePositions(input.fields) = {}
    /\ \A m \in Members(input.fields) : self.fields[m] # other.fields[m]
    /\ result = Unchanged

----------------------------------------------------------------------------
(* Vocabulary of the properties about variant types *)

\* the declaration of the case a value is in
CaseOf(inp, v) ==
    inp.variants[CHOOSE i \in 1..Len(inp.variants) : inp.variants[i].ident = v.variant]

InIgnoredCase(inp, v) == Ignored(CaseOf(inp, v))

\* what every declared field of the common case reports
CaseReports(inp, a, b) ==
    [m \in Members(CaseOf(inp, a).fields) |-> FieldDelta(a.fields[m], b.fields[m])]

\* the Description of a value: its case, each field replaced by its describe()
DescriptionOf(inp, v) ==
    [variant |-> v.variant,
     fields |-> [m \in Members(CaseOf(inp, v).fields) |-> FieldDescribe(v.fields[m])]]

----------------------------------------------------------------------------
(* C3: when both values are in the same non-ignored case, compare builds  *)
(* that case's Change with each field position holding that field's own   *)
(* compare result; it returns Unchanged when every field result is        *)
(* Unchanged and otherwise Changed(SameCase(change)), the unchanged       *)
(* fields still present as Unchanged in the payload.                      *)
C3_SameCase ==
    (IsVariantCompare /\ self.variant = other.variant
        /\ ~InIgnoredCase(input, self)) =>
        LET reports == CaseReports(input, self, other)
        IN  IF \A m \in DOMAIN reports : reports[m] = Unchanged
            THEN result = Unchanged
            ELSE result = Changed([tag |-> "SameVariant",
                                   change |-> [variant |-> self.variant,
                                               fields |-> reports]])

\* two values of a named two-field case that differ in the second field only
C3_Witness ==
    /\ IsVariantCompare
    /\ self.variant = other.variant
    /\ CaseOf(input, self).fields.style = "Named"
    /\ DOMAIN self.fields = {"x", "y_pos"}
    /\ self.fields["x"] = other.fields["x"]
    /\ self.fields["y_pos"] # other.fields["y_pos"]
    /\ result.tag = "Changed"
    /\ result.change.tag = "SameVariant"
    /\ result.change.change.fields["x"] = Unchanged
    /\ result.change.change.fields["y_pos"].tag = "Changed"

----------------------------------------------------------------------------
(* C4: for two values in two different non-ignored cases compare returns  *)
(* Changed(DifferentCase(describe(self), describe(other))), self's        *)
(* description first, whatever the field values are, and the result       *)
(* carries no field-level Change.                                         *)
C4_DifferentCase ==
    (IsVariantCompare /\ self.variant # other.variant
        /\ ~InIgnoredCase(input, self) /\ ~InIgnoredCase(input, other)) =>
        result = Changed([tag |-> "DiffVariant",
                          self_desc |-> DescriptionOf(input, self),
                          other_desc |-> DescriptionOf(input, other)])

\* the two cases each hold one field and the two fields hold the same value
C4_Witness ==
    /\ IsVariantCompare
    /\ self.variant = "Red"
    /\ other.variant = "Green"
    /\ Cardinality(DOMAIN self.fields) = 1
    /\ Cardinality(DOMAIN other.fields) = 1
    /\ \A m \in DOMAIN self.fields, n \in DOMAIN other.fields :
          self.fields[m] = other.fields[n]
    /\ result.tag = "Changed"
    /\ result.change.tag = "DiffVariant"

----------------------------------------------------------------------------
(* C5: compare is defined for every pair of cases, also when one or both  *)
(* operands are in a case flagged ignored: such a pair matches the        *)
(* fallback arm and yields Changed(DifferentCase(describe(self),          *)
(* describe(other))), so describe produces a Description for a value in   *)
(* an ignored case.                                                       *)
C5_IgnoredCaseHandled ==
    (input.kind = "enum" /\ pc \in {"expanded", "built", "rejected", "compared"}) =>
        \A a, b \in ValuesOf(input) :
            (InIgnoredCase(input, a) \/ InIgnoredCase(input, b)) =>
                LET arms == gen.delta_impl.delta.arms
                    described(v) ==
                        \E k \in 1..Len(gen.delta_impl.describe.arms) :
                            gen.delta_impl.describe.arms[k].pat \in {"_", v.variant}
                IN  /\ arms[FirstArm(arms, a.variant, b.variant)].body = "DiffVariant"
                    /\ described(a)
                    /\ described(b)
                    /\ pc # "rejected"

----------------------------------------------------------------------------
(* C6: two values that differ only in a field flagged ignored, whether    *)
(* the field belongs to a record or to a case of a variant type, compare  *)
(* as Unchanged.                                                          *)
C6_IgnoredFieldExclusion ==
    (pc = "compared" /\ self.variant = other.variant) =>
        LET fields == IF input.kind = "struct" THEN input.fields
                      ELSE CaseOf(input, self).fields
        IN  (\A i \in LivePositions(fields) :
                self.fields[MemberOf(fields, i)] = other.fields[MemberOf(fields, i)])
            => result = Unchanged

----------------------------------------------------------------------------
(* C7: for a type with a field flagged ignored (a record field or a field *)
(* of a variant case) neither the Description representation nor the      *)
(* Change representation has a slot, case or value for that field, under  *)
(* the default description strategy as under the others.                  *)

\* the fields the Change representation has a slot for, as <<case, member>>
ChangeSlots(inp, g) ==
    IF g.kind = "struct"
    THEN CASE g.delta_impl.delta.op = "Unchanged" -> {}
           [] g.delta_impl.delta.op = "map" -> {<<"", g.delta_impl.delta.field>>}
           [] g.delta_impl.delta.op = "collect" ->
                 {<<"", MemberOf(inp.fields, i)>> :
                     i \in {j \in 1..Len(inp.fields.list) :
                              \E k \in 1..Len(g.decls[1].body) :
                                 g.decls[1].body[k].case = CaseFor(inp.fields, j)}}
    ELSE UNION {{<<g.decls[2].body[k].vname, g.decls[2].body[k].members[i]>> :
                    i \in 1..Len(g.decls[2].body[k].members)}
                : k \in 1..Len(g.decls[2].body)}

\* the fields the Description representation has a slot for; a type named by
\* describe_type is the user's and has none of the generator's making
DescSlots(inp, g) ==
    IF g.kind = "struct"
    THEN CASE g.delta_impl.Desc = "Self" -> {<<"", m>> : m \in Members(inp.fields)}
           [] g.delta_impl.Desc = "Self::Change" -> ChangeSlots(inp, g)
           [] OTHER -> {}
    ELSE UNION {{<<g.decls[1].body[k].vname, g.decls[1].body[k].members[i]>> :
                    i \in 1..Len(g.decls[1].body[k].members)}
                : k \in 1..Len(g.decls[1].body)}

\* the fields flagged ignored, as <<case, member>>
IgnoredSlots(inp) ==
    IF inp.kind = "struct"
    THEN {<<"", MemberOf(inp.fields, i)>> :
             i \in (1..Len(inp.fields.list)) \ LivePositions(inp.fields)}
    ELSE UNION {{<<inp.variants[k].ident, MemberOf(inp.variants[k].fields, i)>> :
                    i \in (1..Len(inp.variants[k].fields.list))
                             \ LivePositions(inp.variants[k].fields)}
                : k \in 1..Len(inp.variants)}

C7_IgnoredFieldAbsent ==
    (input.kind \in {"struct", "enum"}
        /\ pc \in {"expanded", "built", "rejected", "compared"}) =>
        /\ IgnoredSlots(input) \cap ChangeSlots(input, gen) = {}
        /\ IgnoredSlots(input) \cap DescSlots(input, gen) = {}

----------------------------------------------------------------------------
(* C2: compare returns Unchanged if and only if every compared field      *)
(* reports Unchanged (records), or the two values are in the same case    *)
(* and every field of that case reports Unchanged (variants); two values  *)
(* in different cases never compare as Unchanged.                         *)
C2_UnchangedIff ==
    /\ IsRecordCompare =>
          ((result = Unchanged) <=>
              \A i \in LivePositions(input.fields) :
                  FieldReport(input.fields, i, self, other) = Unchanged)
    /\ IsVariantCompare =>
          ((result = Unchanged) <=>
              /\ self.variant = other.variant
              /\ \A m \in Members(CaseOf(input, self).fields) :
                    CaseReports(input, self, other)[m] = Unchanged)

\* two values of one two-field case whose first field reports Unchanged and
\* whose second reports Changed
C2_Witness ==
    /\ IsVariantCompare
    /\ self.variant = other.variant
    /\ Len(CaseOf(input, self).fields.list) = 2
    /\ FieldReport(CaseOf(input, self).fields, 1, self, other) = Unchanged
    /\ FieldReport(CaseOf(input, self).fields, 2, self, other).tag = "Changed"
    /\ result # Unchanged

----------------------------------------------------------------------------
(* C10: reflexivity.  For every generation shape and every value v,       *)
(* v.compare(v) is Unchanged, compare on the field type being reflexive   *)
(* (FieldDelta(a, a) = Unchanged).                                        *)
C10_Reflexive ==
    (pc = "compared" /\ self = other) => result = Unchanged

\* a record of two or more compared fields compared with itself
C10_Witness ==
    /\ IsRecordCompare
    /\ Cardinality(LivePositions(input.fields)) >= 2
    /\ self = other
    /\ result = Unchanged

----------------------------------------------------------------------------
(* Vocabulary of the properties about the description strategy *)

Carries(inp, path) == \E a \in inp.attrs : a.path = path

Expanded == pc \in {"expanded", "built", "rejected", "compared", "described"}

\* the one strategy of the claim: the first that matches, a custom annotation
\* of either kind selecting the custom strategy
StrategyOf(inp) ==
    IF Carries(inp, "no_description") THEN "suppressed"
    ELSE IF Carries(inp, "describe_type") \/ Carries(inp, "describe_body")
    THEN "custom"
    ELSE IF Carries(inp, "compare_default") THEN "default"
    ELSE "clone"

\* the Description type and the describe body a strategy stands for
TypeOfStrategy(strategy) ==
    CASE strategy = "suppressed" -> "()"
      [] strategy = "custom" -> "describe_type"
      [] strategy = "default" -> "Self::Change"
      [] strategy = "clone" -> "Self"

BodyOfStrategy(strategy) ==
    CASE strategy = "suppressed" -> "()"
      [] strategy = "custom" -> "describe_body"
      [] strategy = "default" -> "default().delta(self).unwrap_or_default()"
      [] strategy = "clone" -> "(*self).clone()"

----------------------------------------------------------------------------
(* C11, as stated: for every source type, record or variant, and every    *)
(* set of annotations, one strategy (the first match of suppressed,       *)
(* custom type with custom body, default-reconstruction, plain clone)     *)
(* determines both the Description type and the describe body.            *)
C11_OneStrategy ==
    (Expanded /\ input.kind \in {"struct", "enum"}) =>
        /\ gen.delta_impl.Desc = TypeOfStrategy(StrategyOf(input))
        /\ gen.delta_impl.describe =
              [op |-> "expr", expr |-> BodyOfStrategy(StrategyOf(input))]

(* C11, amended: for a record the Description type and the describe body  *)
(* are each chosen by their own first match (type: suppressed, custom     *)
(* type, default-reconstruction, the type itself; body: suppressed, custom*)
(* expression, default-reconstruction, clone), so a custom type without a *)
(* custom body, or the reverse, mixes two strategies; describe then       *)
(* returns the fixed empty value, the diff of the default instance        *)
(* against the value (the empty default when unchanged) or a clone.  For  *)
(* a variant type the annotations are not consulted: the Description is   *)
(* the generated mirror type and describe is the match over the cases.    *)
C11_IndependentChoice ==
    /\ (Expanded /\ input.kind = "struct") =>
          /\ gen.delta_impl.Desc =
                TypeOfStrategy(
                    IF Carries(input, "no_description") THEN "suppressed"
                    ELSE IF Carries(input, "describe_type") THEN "custom"
                    ELSE IF Carries(input, "compare_default") THEN "default"
                    ELSE "clone")
          /\ gen.delta_impl.describe.expr =
                BodyOfStrategy(
                    IF Carries(input, "no_description") THEN "suppressed"
                    ELSE IF Carries(input, "describe_body") THEN "custom"
                    ELSE IF Carries(input, "compare_default") THEN "default"
                    ELSE "clone")
    /\ (pc = "described" /\ input.kind = "struct") =>
          LET changed == ChangedPositions(input.fields, DefaultValue(input), self)
          IN  CASE Carries(input, "no_description") -> result.desc.kind = "unit"
                [] ~Carries(input, "no_description")
                        /\ Carries(input, "describe_body") ->
                      result.desc.kind = "expr"
                [] ~Carries(input, "no_description")
                        /\ ~Carries(input, "describe_body")
                        /\ Carries(input, "compare_default") ->
                      IF changed = {} THEN result.desc.kind = "change_default"
                      ELSE result.desc.kind = "change"
                [] OTHER -> result.desc = [kind |-> "clone", value |-> self]
    /\ (Expanded /\ input.kind = "enum") =>
          /\ gen.delta_impl.Desc = input.ident \o "Desc"
          /\ gen.delta_impl.describe.op = "match"
    /\ (pc = "described" /\ input.kind = "enum") =>
          result.desc = [kind |-> "mirror", value |-> DescriptionOf(input, self)]

\* a record with a custom Description type, no custom body and
\* default-reconstruction: the type is the custom one, the value described is
\* the diff against the default instance
C11_Witness ==
    /\ pc = "described"
    /\ input.kind = "struct"
    /\ Carries(input, "describe_type")
    /\ Carries(input, "compare_default")
    /\ ~Carries(input, "describe_body")
    /\ ~Carries(input, "no_description")
    /\ gen.delta_impl.Desc = "describe_type"
    /\ result.desc.kind = "change"

----------------------------------------------------------------------------
\* a custom-description annotation whose payload does not parse
MalformedPayload(inp) ==
    \E a \in inp.attrs :
        a.path \in {"describe_type", "describe_body"} /\ a.args = "malformed"

(* C12: generation fails fatally, with no declaration emitted, whenever    *)
(* the type is a union or carries a custom-description type or expression *)
(* annotation whose payload does not parse, whatever its other            *)
(* annotations; for every other record or variant it does not fail.       *)
C12_FatalFailure ==
    pc # "input" =>
        /\ (pc = "panic") <=> (input.kind = "union" \/ MalformedPayload(input))
        /\ pc = "panic" => gen = Panicked(gen.message)

----------------------------------------------------------------------------
\* the cases of a variant type that are not flagged ignored, in order
LiveCases(inp) == SelectSeq(inp.variants, LAMBDA variant : ~Ignored(variant))

\* an emitted declaration is a variant type whose cases mirror the given
\* source cases: same names, shapes and field counts, in the same order
MirrorsCases(def, cases) ==
    /\ def.keyword = "enum"
    /\ def.form = "brace"
    /\ Len(def.body) = Len(cases)
    /\ \A i \in 1..Len(cases) :
          /\ def.body[i].vname = cases[i].ident
          /\ def.body[i].style = cases[i].fields.style
          /\ Len(def.body[i].types) = Len(cases[i].fields.list)

(* C13: for every variant type, whatever its number of non-ignored cases  *)
(* (exactly one included), the emitted Description and Change types are   *)
(* variant types with one case per non-ignored source case, in            *)
(* declaration order, of the same name, shape and number of fields; each  *)
(* Description field has the field's Description type and each Change     *)
(* field has Changed of the field's Change type.                          *)
C13_MirrorTypes ==
    (Expanded /\ input.kind = "enum") =>
        LET cases == LiveCases(input)
        IN  /\ MirrorsCases(gen.decls[1], cases)
            /\ MirrorsCases(gen.decls[2], cases)
            /\ \A i \in 1..Len(cases) :
                  \A k \in 1..Len(cases[i].fields.list) :
                      /\ gen.decls[1].body[i].types[k] =
                            desc_type(cases[i].fields.list[k].ty)
                      /\ gen.decls[2].body[i].types[k] =
                            [ty |-> "delta::Changed",
                             of |-> change_type(cases[i].fields.list[k].ty)]

====
